---------------------------- MODULE Spec2Model ----------------------------
(***************************************************************************)
(* A model of info-actions/site/common/js/usefuls.js: the query codec      *)
(* (queryParam, params2query), asap, arrayOfNodesWith, hostReactAppReady,  *)
(* mediaMatcher, preloadScript and vimeoAutoPlay.                          *)
(*                                                                         *)
(* Each helper of the file is independent of the others (only              *)
(* vimeoAutoPlay uses preloadScript), so each gets a specification of its  *)
(* own over its own variables; the variables of the other helpers stay at  *)
(* their initial values.                                                   *)
(*                                                                         *)
(* JavaScript strings are sequences of one-character strings over          *)
(* printable ASCII.  JavaScript values are records of one shape,           *)
(*   [t: type tag, n: number or boolean (0/1), s: string, kids: entries,   *)
(*    proto: the prototype given by the __proto__ setter, if any]          *)
(* where kids is the list of [k: key, v: value] of an object, in property  *)
(* order, or of an array (k = <<>>).  Numbers are integers.  A value that  *)
(* falls outside (a string with a character outside printable ASCII, a     *)
(* number with a fraction or an exponent, a property of Array.prototype)   *)
(* is Unmodelled or UnmodelledPrimitive; whether a text is well formed is  *)
(* decided in full all the same.                                           *)
(***************************************************************************)
EXTENDS Integers, Sequences, FiniteSets, TLC

VARIABLES
  \* query codec: the mapping, its query string, the source and the key
  \* given to queryParam, its result, and the step reached
  qm, qstr, qsrc, qp, qres, qpc,
  \* asap: document.readyState, whether DOMContentLoaded has been
  \* dispatched, the calls, and the DOMContentLoaded listeners that have
  \* not run yet, in the order of their registration
  readyState, dclFired, acalls, listeners,
  \* hostReactAppReady: the host element of each selector, and the calls
  hostEl, hwait,
  \* mediaMatcher: the viewport width, the resizes so far, and the calls
  width, resizes, mwatch,
  \* arrayOfNodesWith: the input, the nodes it should give, whether it
  \* holds an unsupported leaf, the wraps so far, the result, the step
  what, flat, bad, wraps, nres, npc,
  \* preloadScript: the script elements created
  scripts,
  \* vimeoAutoPlay: the video boxes in the document (in its order), which of them are in
  \* view, the changes of that so far, the calls, the 'vimeo-player'
  \* property of each box and the players constructed so far, and per box
  \* the entries its observers have reported and the calls made on players
  boxes, visible, nchanges, vact, player, nextPlayer, delivered, vcalls

qvars == <<qm, qstr, qsrc, qp, qres, qpc>>
avars == <<readyState, dclFired, acalls, listeners>>
hvars == <<hostEl, hwait>>
mvars == <<width, resizes, mwatch>>
nvars == <<what, flat, bad, wraps, nres, npc>>
svars == <<scripts, boxes, visible, nchanges, vact, player, nextPlayer, delivered, vcalls>>

\* What the functions of one part leave alone: the state of the others.
NotQuery == <<avars, hvars, mvars, nvars, svars>>
NotAsap == <<qvars, hvars, mvars, nvars, svars>>
NotHost == <<qvars, avars, mvars, nvars, svars>>
NotMedia == <<qvars, avars, hvars, nvars, svars>>
NotNodes == <<qvars, avars, hvars, mvars, svars>>
NotVimeo == <<qvars, avars, hvars, mvars, nvars>>

-----------------------------------------------------------------------------
(* Bounds *)

\* Largest number of entries of a mapping given to params2query.
MaxPairs == 2
\* Calls of asap.
MaxCalls == 3
\* Calls of hostReactAppReady.
MaxWaiters == 2
\* Calls of mediaMatcher, and changes of the viewport width.
MaxWatchers == 2
MaxResizes == 3
\* Leaves of the input of arrayOfNodesWith, and arrays nested into it.
MaxLeaves == 3
MaxWraps == 2
\* Script elements created by calls of preloadScript, and changes of what
\* is in view.
MaxScripts == 3
MaxChanges == 2
\* Calls of insertVimeoBox and of vimeoAutoPlay, together.
MaxVimeoCalls == 3

-----------------------------------------------------------------------------
(* JavaScript values *)

\* A value: its type, its number, its characters, its own properties
\* (entries in property order; the elements of an array), and its
\* prototype: <<>> for the one it was created with, << v >> for the v the
\* __proto__ setter has given it.
Val(t, n, s, kids) == [t |-> t, n |-> n, s |-> s, kids |-> kids, proto |-> <<>>]

Undefined == Val("undefined", 0, <<>>, <<>>)
Null == Val("null", 0, <<>>, <<>>)
Bool(b) == Val("boolean", IF b THEN 1 ELSE 0, <<>>, <<>>)
Num(n) == Val("number", n, <<>>, <<>>)
StrV(s) == Val("string", 0, s, <<>>)
Obj(kids) == Val("object", 0, <<>>, kids)
Arr(kids) == Val("array", 0, <<>>, kids)
\* A built-in function, by its name.
Builtin(name) == Val("function", 0, name, <<>>)
\* Object.prototype itself.
ObjectPrototype == Val("Object.prototype", 0, <<>>, <<>>)
\* A thrown URIError (decodeURIComponent on a malformed escape).
URIError == Val("URIError", 0, <<>>, <<>>)
\* A value the model does not represent, of whatever type.
Unmodelled == Val("unmodelled", 0, <<>>, <<>>)
\* A number or a string the model does not represent: a number with a
\* fraction or an exponent or of more than nine digits, a string holding a
\* character outside printable ASCII.
UnmodelledPrimitive == Val("unmodelled primitive", 0, <<>>, <<>>)
\* A character outside printable ASCII.
OutsideChar == "OUTSIDE"

Entry(k, v) == [k |-> k, v |-> v]
Elem(v) == [k |-> <<>>, v |-> v]

\* The element of a singleton.  A value that is used more than once is
\* bound as the element of a singleton: { f(x) : x \in {e} } holds f of the
\* value of e.
Only(S) == CHOOSE x \in S : TRUE

\* typeof v === 'object' (null, arrays and objects).
TypeofObject(v) == v.t \in {"null", "object", "array"}

Keys(kids) == {kids[i].k : i \in 1..Len(kids)}

\* The value of the own property key, which is there.
Own(kids, key) == kids[CHOOSE i \in 1..Len(kids) : kids[i].k = key].v

K_proto == <<"_", "_", "p", "r", "o", "t", "o", "_", "_">>
K_constructor == <<"c", "o", "n", "s", "t", "r", "u", "c", "t", "o", "r">>

\* The functions every object inherits from Object.prototype, but for
\* constructor.
ObjectPrototypeFunctions ==
  { <<"_", "_", "d", "e", "f", "i", "n", "e", "G", "e", "t", "t", "e", "r", "_", "_">>,
    <<"_", "_", "d", "e", "f", "i", "n", "e", "S", "e", "t", "t", "e", "r", "_", "_">>,
    <<"_", "_", "l", "o", "o", "k", "u", "p", "G", "e", "t", "t", "e", "r", "_", "_">>,
    <<"_", "_", "l", "o", "o", "k", "u", "p", "S", "e", "t", "t", "e", "r", "_", "_">>,
    <<"h", "a", "s", "O", "w", "n", "P", "r", "o", "p", "e", "r", "t", "y">>,
    <<"i", "s", "P", "r", "o", "t", "o", "t", "y", "p", "e", "O", "f">>,
    <<"p", "r", "o", "p", "e", "r", "t", "y", "I", "s", "E", "n", "u", "m", "e", "r", "a", "b", "l", "e">>,
    <<"t", "o", "L", "o", "c", "a", "l", "e", "S", "t", "r", "i", "n", "g">>,
    <<"t", "o", "S", "t", "r", "i", "n", "g">>,
    <<"v", "a", "l", "u", "e", "O", "f">> }

Digits == <<"0", "1", "2", "3", "4", "5", "6", "7", "8", "9">>
DigitSet == {Digits[i] : i \in 1..10}
DigitVal(c) == (CHOOSE i \in 1..10 : Digits[i] = c) - 1

RECURSIVE NatToStr(_)
\* The decimal of a natural number.
NatToStr(n) == IF n < 10 THEN << Digits[n + 1] >> ELSE Append(NatToStr(n \div 10), Digits[(n % 10) + 1])

\* a < b for two strings of digits of the same length.
DigitsLess(a, b) ==
  \E i \in 1..Len(a) :
    /\ \A j \in 1..(i - 1) : a[j] = b[j]
    /\ DigitVal(a[i]) < DigitVal(b[i])

\* The largest array index, 2^32 - 2.
MaxIndexKey == <<"4", "2", "9", "4", "9", "6", "7", "2", "9", "4">>

\* key is an array index: the canonical decimal of a number up to
\* 2^32 - 2.  Such keys come first among the properties of an object.
IndexKey(key) ==
  /\ key # <<>>
  /\ \A i \in 1..Len(key) : key[i] \in DigitSet
  /\ (key[1] = "0" => Len(key) = 1)
  /\ Len(key) <= Len(MaxIndexKey)
  /\ Len(key) = Len(MaxIndexKey) => (key = MaxIndexKey \/ DigitsLess(key, MaxIndexKey))

\* a < b for two array indices.
IndexLess(a, b) == Len(a) < Len(b) \/ (Len(a) = Len(b) /\ DigitsLess(a, b))

\* An own property is created or overwritten: an existing one keeps its
\* place; a new array index goes among the array indices, which come first
\* in ascending order; any other new key comes last.
DefineOwn(kids, key, v) ==
  IF key \in Keys(kids)
  THEN [i \in 1..Len(kids) |-> IF kids[i].k = key THEN Entry(key, v) ELSE kids[i]]
  ELSE IF IndexKey(key)
  THEN LET before == Cardinality({i \in 1..Len(kids) :
                        IndexKey(kids[i].k) /\ IndexLess(kids[i].k, key)})
       IN [i \in 1..(Len(kids) + 1) |->
            IF i <= before THEN kids[i]
            ELSE IF i = before + 1 THEN Entry(key, v)
            ELSE kids[i - 1]]
  ELSE Append(kids, Entry(key, v))

\* The data property key of the prototype object o (an object or an array
\* that JSON.parse has made): << its value >>, or <<>> when o has none.  An
\* array has its elements and its length; the functions of Array.prototype
\* are not in the model.
OwnOf(o, key) ==
  IF o.t = "object"
  THEN (IF key \in Keys(o.kids) THEN << Own(o.kids, key) >> ELSE <<>>)
  ELSE IF key = <<"l", "e", "n", "g", "t", "h">> THEN << Num(Len(o.kids)) >>
  ELSE IF \E i \in 1..Len(o.kids) : NatToStr(i - 1) = key
  THEN << o.kids[CHOOSE i \in 1..Len(o.kids) : NatToStr(i - 1) = key].v >>
  ELSE <<>>

\* The names Array.prototype defines, or may define: the engines differ on
\* the later ones.  What an object gets for them through an array is not in
\* the model.
ArrayPrototypeKeys ==
  { <<"a", "t">>,
    <<"c", "o", "n", "c", "a", "t">>,
    <<"c", "o", "n", "s", "t", "r", "u", "c", "t", "o", "r">>,
    <<"c", "o", "p", "y", "W", "i", "t", "h", "i", "n">>,
    <<"e", "n", "t", "r", "i", "e", "s">>,
    <<"e", "v", "e", "r", "y">>,
    <<"f", "i", "l", "l">>,
    <<"f", "i", "l", "t", "e", "r">>,
    <<"f", "i", "n", "d">>,
    <<"f", "i", "n", "d", "I", "n", "d", "e", "x">>,
    <<"f", "i", "n", "d", "L", "a", "s", "t">>,
    <<"f", "i", "n", "d", "L", "a", "s", "t", "I", "n", "d", "e", "x">>,
    <<"f", "l", "a", "t">>,
    <<"f", "l", "a", "t", "M", "a", "p">>,
    <<"f", "o", "r", "E", "a", "c", "h">>,
    <<"i", "n", "c", "l", "u", "d", "e", "s">>,
    <<"i", "n", "d", "e", "x", "O", "f">>,
    <<"j", "o", "i", "n">>,
    <<"k", "e", "y", "s">>,
    <<"l", "a", "s", "t", "I", "n", "d", "e", "x", "O", "f">>,
    <<"m", "a", "p">>,
    <<"p", "o", "p">>,
    <<"p", "u", "s", "h">>,
    <<"r", "e", "d", "u", "c", "e">>,
    <<"r", "e", "d", "u", "c", "e", "R", "i", "g", "h", "t">>,
    <<"r", "e", "v", "e", "r", "s", "e">>,
    <<"s", "h", "i", "f", "t">>,
    <<"s", "l", "i", "c", "e">>,
    <<"s", "o", "m", "e">>,
    <<"s", "o", "r", "t">>,
    <<"s", "p", "l", "i", "c", "e">>,
    <<"t", "o", "L", "o", "c", "a", "l", "e", "S", "t", "r", "i", "n", "g">>,
    <<"t", "o", "R", "e", "v", "e", "r", "s", "e", "d">>,
    <<"t", "o", "S", "o", "r", "t", "e", "d">>,
    <<"t", "o", "S", "p", "l", "i", "c", "e", "d">>,
    <<"t", "o", "S", "t", "r", "i", "n", "g">>,
    <<"u", "n", "s", "h", "i", "f", "t">>,
    <<"v", "a", "l", "u", "e", "s">>,
    <<"w", "i", "t", "h">> }

\* What obj inherits for key past its own properties and those of the
\* prototype the setter has installed, obj being the receiver: the
\* __proto__ getter gives the prototype of obj; behind an array comes
\* Array.prototype, and then Object.prototype, whose functions but for
\* toString and toLocaleString it leaves as they are; any other key is
\* undefined.
FromObjectPrototype(obj, key) ==
  IF key = K_proto THEN (IF obj.proto = <<>> THEN ObjectPrototype ELSE obj.proto[1])
  ELSE IF obj.proto # <<>> /\ obj.proto[1].t = "array" /\ key \in ArrayPrototypeKeys
  THEN Unmodelled
  ELSE IF key = K_constructor THEN Builtin(<<"O", "b", "j", "e", "c", "t">>)
  ELSE IF key \in ObjectPrototypeFunctions THEN Builtin(key)
  ELSE Undefined

\* obj[key]: the own property, and else what the prototype chain gives
\* (undefined when nothing does): a property of the prototype that the
\* __proto__ setter has installed, and then those of Object.prototype; an
\* object whose prototype is null inherits nothing.
Get(obj, key) ==
  IF key \in Keys(obj.kids) THEN Own(obj.kids, key)
  ELSE IF obj.proto = <<>> THEN FromObjectPrototype(obj, key)
  ELSE IF obj.proto[1].t = "null" THEN Undefined
  ELSE IF OwnOf(obj.proto[1], key) # <<>> THEN OwnOf(obj.proto[1], key)[1]
  ELSE FromObjectPrototype(obj, key)

\* obj[key] = v reaches the __proto__ setter of Object.prototype: the key
\* is __proto__, and neither obj nor its prototype has a property of that
\* name, and the prototype is not null.
ReachesProtoSetter(obj, key) ==
  /\ key = K_proto
  /\ key \notin Keys(obj.kids)
  /\ obj.proto # <<>> =>
       /\ obj.proto[1].t # "null"
       /\ OwnOf(obj.proto[1], key) = <<>>

\* obj[key] = v on a plain object.  The __proto__ setter makes an object, an
\* array or null the prototype of obj and ignores a primitive; every other
\* assignment creates or overwrites an own property.  Once a value of
\* unknown type has reached the setter, the object is not represented.
Put(obj, key, v) ==
  IF obj.t = "unmodelled" THEN obj
  ELSE IF ReachesProtoSetter(obj, key)
  THEN (IF v.t = "unmodelled" THEN Unmodelled
        ELSE IF v.t \in {"object", "array", "null"} THEN [obj EXCEPT !.proto = << v >>]
        ELSE obj)
  ELSE [obj EXCEPT !.kids = DefineOwn(obj.kids, key, v)]

-----------------------------------------------------------------------------
(* Strings *)

\* Printable ASCII, code 32 (space) to 126 (~): Printable[i] has code i + 31.
\* The grave accent (code 96) is written "GRAVE": the parser accepts no
\* string literal holding it.
Printable ==
  << " ", "!", "\"", "#", "$", "%", "&", "'", "(", ")", "*", "+", ",", "-", ".", "/",
     "0", "1", "2", "3", "4", "5", "6", "7", "8", "9", ":", ";", "<", "=", ">", "?",
     "@", "A", "B", "C", "D", "E", "F", "G", "H", "I", "J", "K", "L", "M", "N", "O",
     "P", "Q", "R", "S", "T", "U", "V", "W", "X", "Y", "Z", "[", "\\", "]", "^", "_",
     "GRAVE", "a", "b", "c", "d", "e", "f", "g", "h", "i", "j", "k", "l", "m", "n", "o",
     "p", "q", "r", "s", "t", "u", "v", "w", "x", "y", "z", "{", "|", "}", "~" >>

PrintableSet == {Printable[i] : i \in 1..Len(Printable)}

CharCode(c) == 31 + CHOOSE i \in 1..Len(Printable) : Printable[i] = c

HexUpper == <<"0", "1", "2", "3", "4", "5", "6", "7", "8", "9", "A", "B", "C", "D", "E", "F">>
HexLower == <<"0", "1", "2", "3", "4", "5", "6", "7", "8", "9", "a", "b", "c", "d", "e", "f">>
HexSet == {HexUpper[i] : i \in 1..16} \cup {HexLower[i] : i \in 1..16}
HexVal(c) == (CHOOSE i \in 1..16 : HexUpper[i] = c \/ HexLower[i] = c) - 1

Sub(s, i, j) == IF j < i THEN <<>> ELSE SubSeq(s, i, j)

RECURSIVE ConcatRange(_, _, _)
ConcatRange(ss, i, j) ==
  IF j < i THEN <<>>
  ELSE IF i = j THEN ss[i]
  ELSE ConcatRange(ss, i, (i + j) \div 2) \o ConcatRange(ss, ((i + j) \div 2) + 1, j)

\* The concatenation of a sequence of strings.
Concat(ss) == ConcatRange(ss, 1, Len(ss))

RECURSIVE Join(_, _)
\* Array.prototype.join.
Join(ss, sep) ==
  IF ss = <<>> THEN <<>>
  ELSE IF Len(ss) = 1 THEN ss[1]
  ELSE ss[1] \o sep \o Join(Tail(ss), sep)

\* String.prototype.split with a one-character separator: every piece, the
\* empty ones included; the empty string gives one empty piece.
Split(s, sep) ==
  LET seps == {i \in 1..Len(s) : s[i] = sep}
      n == Cardinality(seps)
      \* The place of the k-th separator, the two ends of s counting as the
      \* separators 0 and n + 1.
      SepAt(k) ==
        IF k = 0 THEN 0
        ELSE IF k = n + 1 THEN Len(s) + 1
        ELSE CHOOSE p \in seps : Cardinality({q \in seps : q < p}) = k - 1
  IN [k \in 1..(n + 1) |-> Sub(s, SepAt(k - 1) + 1, SepAt(k) - 1)]

\* Number.prototype.toString of an integer.
NumToStr(n) == IF n < 0 THEN <<"-">> \o NatToStr(-n) ELSE NatToStr(n)

\* String(v) of a value that is not an object: what a template or
\* encodeURIComponent makes of it.
ToStr(v) ==
  CASE v.t = "string" -> v.s
    [] v.t = "number" -> NumToStr(v.n)
    [] v.t = "boolean" -> IF v.n = 1 THEN <<"t", "r", "u", "e">> ELSE <<"f", "a", "l", "s", "e">>
    [] v.t = "undefined" -> <<"u", "n", "d", "e", "f", "i", "n", "e", "d">>
    [] v.t = "null" -> <<"n", "u", "l", "l">>
    [] OTHER -> <<"?">>

-----------------------------------------------------------------------------
(* encodeURIComponent, decodeURIComponent *)

\* The characters encodeURIComponent leaves as they are.
Unreserved ==
  {Printable[i] : i \in 17..26} \cup {Printable[i] : i \in 34..59}
    \cup {Printable[i] : i \in 66..91}
    \cup {"-", "_", ".", "!", "~", "*", "'", "(", ")"}

\* EncodeChar as encodeURI would do it: the delimiters ; / ? : @ & = + $ , #
\* are left as they are.
EncodeCharAsEncodeURI(c) ==
  IF c \in Unreserved \cup {";", "/", "?", ":", "@", "&", "=", "+", "$", ",", "#"} THEN << c >>
  ELSE << "%", HexUpper[(CharCode(c) \div 16) + 1], HexUpper[(CharCode(c) % 16) + 1] >>

\* One character, percent-encoded (upper-case hex) unless unreserved.
EncodeChar(c) ==
  IF c \in Unreserved THEN << c >>
  ELSE << "%", HexUpper[(CharCode(c) \div 16) + 1], HexUpper[(CharCode(c) % 16) + 1] >>

EncodeStr(s) == Concat([i \in 1..Len(s) |-> EncodeChar(s[i])])

\* encodeURIComponent(v): v is converted to a string first.
encodeURIComponent(v) == EncodeStr(ToStr(v))

RECURSIVE Utf8Ok(_, _, _)
\* The escaped bytes from the k-th on are UTF-8: a byte below 128, or a
\* lead byte with the continuation bytes it asks for, each escaped right
\* after the byte before it (adjacent), and no overlong form, surrogate or
\* code point above 10FFFF.
Utf8Ok(bytes, adjacent, k) ==
  IF k > Len(bytes) THEN TRUE
  ELSE LET b == bytes[k]
           n == IF b < 128 THEN 0
                ELSE IF b \in 194..223 THEN 1
                ELSE IF b \in 224..239 THEN 2
                ELSE IF b \in 240..244 THEN 3
                ELSE -1
       IN /\ n >= 0
          /\ k + n <= Len(bytes)
          /\ \A j \in 1..n : adjacent[k + j] /\ bytes[k + j] \in 128..191
          /\ n >= 1 =>
               /\ b = 224 => bytes[k + 1] >= 160
               /\ b = 237 => bytes[k + 1] <= 159
               /\ b = 240 => bytes[k + 1] >= 144
               /\ b = 244 => bytes[k + 1] <= 143
          /\ Utf8Ok(bytes, adjacent, k + n + 1)

\* The decoding of s: a string value; URIError when two hex digits do not
\* follow a % or the escaped bytes are not UTF-8; and Unmodelled for a
\* string with a character outside printable ASCII.  s is cut at its %
\* signs: every piece but the first starts with the two hex digits of an
\* escape.
DecodeStr(s) ==
  LET pieces == Split(s, "%")
      Escapes == 2..Len(pieces)
      WellFormed(k) ==
        Len(pieces[k]) >= 2 /\ pieces[k][1] \in HexSet /\ pieces[k][2] \in HexSet
      Byte(k) == 16 * HexVal(pieces[k][1]) + HexVal(pieces[k][2])
      bytes == [k \in 1..(Len(pieces) - 1) |-> Byte(k + 1)]
      adjacent == [k \in 1..(Len(pieces) - 1) |-> k > 1 /\ Len(pieces[k]) = 2]
  IN IF \E k \in Escapes : ~WellFormed(k) THEN URIError
     ELSE IF ~Utf8Ok(bytes, adjacent, 1) THEN URIError
     ELSE IF \E k \in Escapes : Byte(k) \notin 32..126 THEN Unmodelled
     ELSE StrV(pieces[1] \o Concat([k \in 1..(Len(pieces) - 1) |->
                 << Printable[Byte(k + 1) - 31] >> \o Sub(pieces[k + 1], 3, Len(pieces[k + 1]))]))

\* decodeURIComponent(v): v (undefined for a missing value) is converted to
\* a string first, so undefined decodes to the string "undefined".
decodeURIComponent(v) == DecodeStr(ToStr(v))

-----------------------------------------------------------------------------
(* JSON.stringify, JSON.parse *)

QuoteChar(c) == IF c \in {"\"", "\\"} THEN << "\\", c >> ELSE << c >>

QuoteChars(s) == Concat([i \in 1..Len(s) |-> QuoteChar(s[i])])

\* A JSON string literal.
Quote(s) == <<"\"">> \o QuoteChars(s) \o <<"\"">>

RECURSIVE JSONstringify(_)
\* JSON.stringify(v), v a JSON value: no white space, properties in order.
JSONstringify(v) ==
  CASE v.t = "null" -> <<"n", "u", "l", "l">>
    [] v.t = "boolean" -> ToStr(v)
    [] v.t = "number" -> NumToStr(v.n)
    [] v.t = "string" -> Quote(v.s)
    [] v.t = "array" ->
         <<"[">> \o Join([i \in 1..Len(v.kids) |-> JSONstringify(v.kids[i].v)], <<",">>) \o <<"]">>
    [] v.t = "object" ->
         <<"{">> \o Join([i \in 1..Len(v.kids) |->
                           Quote(v.kids[i].k) \o <<":">> \o JSONstringify(v.kids[i].v)], <<",">>)
                 \o <<"}">>
    [] OTHER -> <<"?">>

\* A parse step's result: how it ended, the value and the index after it.
POk(v, pos) == [k |-> "ok", v |-> v, pos |-> pos]
PFail == [k |-> "fail", v |-> Undefined, pos |-> 0]

JSONWhitespace == {" "}

RECURSIVE SkipWs(_, _)
SkipWs(s, i) == IF i <= Len(s) /\ s[i] \in JSONWhitespace THEN SkipWs(s, i + 1) ELSE i

RECURSIVE DigitsEnd(_, _)
\* The first index from i on that holds no digit.
DigitsEnd(s, i) == IF i <= Len(s) /\ s[i] \in DigitSet THEN DigitsEnd(s, i + 1) ELSE i

RECURSIVE DigitsVal(_, _, _)
\* The number written by the digits s[i..j].
DigitsVal(s, i, j) == IF j < i THEN 0 ELSE 10 * DigitsVal(s, i, j - 1) + DigitVal(s[j])

\* A JSON number at index i: -? (0 | [1-9][0-9]*) (. [0-9]+)? ([eE] [+-]? [0-9]+)?
\* An integer of at most nine digits has its value; a number with a
\* fraction or an exponent, or of more digits, and -0 are UnmodelledPrimitive;
\* a fraction or an exponent without digits is a SyntaxError.
JNumber(s, i) ==
  LET neg == s[i] = "-"
      j == IF neg THEN i + 1 ELSE i
      k == DigitsEnd(s, j)
      intOk == k > j /\ (s[j] = "0" => k = j + 1)
      hasFrac == k <= Len(s) /\ s[k] = "."
      f == IF hasFrac THEN DigitsEnd(s, k + 1) ELSE k
      fracOk == hasFrac => f > k + 1
      hasExp == f <= Len(s) /\ s[f] \in {"e", "E"}
      g == IF f + 1 <= Len(s) /\ s[f + 1] \in {"+", "-"} THEN f + 2 ELSE f + 1
      e == IF hasExp THEN DigitsEnd(s, g) ELSE f
      expOk == hasExp => e > g
  IN IF ~intOk THEN PFail
     ELSE IF ~fracOk THEN PFail
     ELSE IF ~expOk THEN PFail
     ELSE IF hasFrac \/ hasExp \/ k - j > 9 THEN POk(UnmodelledPrimitive, e)
     ELSE IF neg /\ DigitsVal(s, j, k - 1) = 0 THEN POk(UnmodelledPrimitive, k)
     ELSE POk(Num((IF neg THEN -1 ELSE 1) * DigitsVal(s, j, k - 1)), k)

RECURSIVE JChars(_, _, _)
\* The rest of a JSON string literal from index i on (after its opening
\* quote), acc the characters read.  The escapes \" \\ \/ give their
\* character, \uXXXX the character of that code, \b \f \n \r \t one outside
\* printable ASCII; any other escape is a SyntaxError.
JChars(s, i, acc) ==
  IF i > Len(s) THEN PFail
  ELSE IF s[i] = "\"" THEN
    POk(IF \E c \in 1..Len(acc) : acc[c] = OutsideChar THEN UnmodelledPrimitive ELSE StrV(acc), i + 1)
  ELSE IF s[i] = "\\" THEN
    IF i + 1 > Len(s) THEN PFail
    ELSE IF s[i + 1] \in {"\"", "\\", "/"} THEN JChars(s, i + 2, Append(acc, s[i + 1]))
    ELSE IF s[i + 1] \in {"b", "f", "n", "r", "t"} THEN JChars(s, i + 2, Append(acc, OutsideChar))
    ELSE IF s[i + 1] = "u" THEN
      IF i + 5 <= Len(s) /\ \A d \in 2..5 : s[i + d] \in HexSet
      THEN LET code == 4096 * HexVal(s[i + 2]) + 256 * HexVal(s[i + 3])
                         + 16 * HexVal(s[i + 4]) + HexVal(s[i + 5])
           IN JChars(s, i + 6,
                     Append(acc, IF code \in 32..126 THEN Printable[code - 31] ELSE OutsideChar))
      ELSE PFail
    ELSE PFail
  ELSE JChars(s, i + 1, Append(acc, s[i]))

JLiteral(s, i, word, v) ==
  IF i + Len(word) - 1 <= Len(s) /\ Sub(s, i, i + Len(word) - 1) = word
  THEN POk(v, i + Len(word)) ELSE PFail

RECURSIVE JValue(_, _)
RECURSIVE JElements(_, _, _)
RECURSIVE JMembers(_, _, _)

\* A JSON value at index i (white space before it already skipped).
JValue(s, i) ==
  IF i > Len(s) THEN PFail
  ELSE CASE s[i] = "{" ->
              LET j == SkipWs(s, i + 1)
              IN IF j <= Len(s) /\ s[j] = "}" THEN POk(Obj(<<>>), j + 1)
                 ELSE JMembers(s, j, <<>>)
         [] s[i] = "[" ->
              LET j == SkipWs(s, i + 1)
              IN IF j <= Len(s) /\ s[j] = "]" THEN POk(Arr(<<>>), j + 1)
                 ELSE JElements(s, j, <<>>)
         [] s[i] = "\"" -> JChars(s, i + 1, <<>>)
         [] s[i] = "-" \/ s[i] \in DigitSet -> JNumber(s, i)
         [] s[i] = "t" -> JLiteral(s, i, <<"t", "r", "u", "e">>, Bool(TRUE))
         [] s[i] = "f" -> JLiteral(s, i, <<"f", "a", "l", "s", "e">>, Bool(FALSE))
         [] s[i] = "n" -> JLiteral(s, i, <<"n", "u", "l", "l">>, Null)
         [] OTHER -> PFail

\* The elements of an array from index i on (a value is due), acc those read.
JElements(s, i, acc) ==
  LET r == JValue(s, i)
  IN IF r.k # "ok" THEN r
     ELSE LET j == SkipWs(s, r.pos)
              got == Append(acc, Elem(r.v))
          IN IF j > Len(s) THEN PFail
             ELSE IF s[j] = "]" THEN POk(Arr(got), j + 1)
             ELSE IF s[j] = "," THEN JElements(s, SkipWs(s, j + 1), got)
             ELSE PFail

\* The members of an object from index i on (a key is due), acc those read:
\* each becomes an own property (__proto__ too); a repeated key keeps its
\* place and takes the last value.  An object with a key the model does
\* not represent is Unmodelled.
JMembers(s, i, acc) ==
  IF i > Len(s) \/ s[i] # "\"" THEN PFail
  ELSE LET key == JChars(s, i + 1, <<>>)
       IN IF key.k # "ok" THEN key
          ELSE LET c == SkipWs(s, key.pos)
               IN IF c > Len(s) \/ s[c] # ":" THEN PFail
                  ELSE LET r == JValue(s, SkipWs(s, c + 1))
                       IN IF r.k # "ok" THEN r
                          ELSE LET j == SkipWs(s, r.pos)
                                   name == IF key.v.t = "string" THEN key.v.s
                                           ELSE << OutsideChar >>
                                   got == DefineOwn(acc, name, r.v)
                               IN IF j > Len(s) THEN PFail
                                  ELSE IF s[j] = "}"
                                  THEN POk(IF << OutsideChar >> \in Keys(got) THEN Unmodelled
                                           ELSE Obj(got), j + 1)
                                  ELSE IF s[j] = "," THEN JMembers(s, SkipWs(s, j + 1), got)
                                  ELSE PFail

\* JSON.parse(s): the value s writes, with nothing but white space around
\* it; k = "fail" is the SyntaxError.
JSONparse(s) ==
  LET r == JValue(s, SkipWs(s, 1))
  IN IF r.k # "ok" THEN r
     ELSE IF SkipWs(s, r.pos) = Len(s) + 1 THEN r
     ELSE PFail

-----------------------------------------------------------------------------
(* queryParam, params2query *)

\* source.split('?')[1] || '': what lies between the first and the second
\* question mark, empty when there is none.
QueryString(source) ==
  LET parts == Split(source, "?")
  IN IF Len(parts) >= 2 THEN parts[2] ELSE <<>>

\* SkipPair skipping a pair with an empty value too.
SkipPairOrEmptyValue(kv) == kv = <<>> \/ (Len(Split(kv, "=")) >= 2 /\ Split(kv, "=")[2] = <<>>)

\* if (!kv) return: an empty pair is skipped.
SkipPair(kv) == kv = <<>>

\* const [key, value] = kv.split('='): the first two pieces, value
\* undefined when the pair holds no '='.
PairKey(kv) == Split(kv, "=")[1]

PairValue(kv) ==
  LET parts == Split(kv, "=")
  IN IF Len(parts) >= 2 THEN StrV(parts[2]) ELSE Undefined

\* The value stored for a pair: JSON.parse of the decoded value, and the
\* decoded value itself when that throws.  A malformed escape throws in the
\* try and again in the catch, so the URIError leaves queryParam.
ParamValue(value) ==
  Only({ IF d.t # "string" THEN d
         ELSE LET r == JSONparse(d.s)
              IN IF r.k = "ok" THEN r.v ELSE d :
         d \in { decodeURIComponent(value) } })

RECURSIVE ParsePairs(_, _)
\* The forEach over the pairs, params the object as it is so far.
ParsePairs(pairs, params) ==
  IF pairs = <<>> THEN params
  ELSE IF SkipPair(Head(pairs)) THEN ParsePairs(Tail(pairs), params)
  ELSE Only({ IF v.t = "URIError" THEN v
              ELSE ParsePairs(Tail(pairs), Put(params, PairKey(Head(pairs)), v)) :
              v \in { ParamValue(PairValue(Head(pairs))) } })

\* queryParam(p, source); p = <<>> stands for a missing (or empty) p.
queryParam(p, source) ==
  Only({ IF params.t # "object" THEN params
         ELSE IF p # <<>> THEN Get(params, p)
         ELSE params :
         params \in { ParsePairs(pairs, Obj(<<>>)) : pairs \in { Split(QueryString(source), "&") } } })

\* One `${k}=${encodeURIComponent(...)}` of params2query.
PairOf(e) ==
  e.k \o <<"=">> \o encodeURIComponent(IF TypeofObject(e.v) THEN StrV(JSONstringify(e.v)) ELSE e.v)

\* params2query(p), p the entries of the object in order.
params2query(p) == Join([i \in 1..Len(p) |-> PairOf(p[i])], <<"&">>)

-----------------------------------------------------------------------------
(* The inputs of the query codec *)

K_a == <<"a">>
K_b == <<"b">>
K_c == <<"c">>
K_flag == <<"f", "l", "a", "g">>
S_hello == <<"h", "e", "l", "l", "o">>

\* Keys of the mappings: a plain one, an array index, ones holding a
\* delimiter, and __proto__ (an own property, as JSON.parse makes it).
MapKeys == {K_a, <<"2">>, <<"p", "&", "q">>, <<"r", "?", "s", "=", "t">>, K_proto}

\* Values of the mappings: scalars, strings (two of them JSON texts, one a
\* numeral that is not JSON), and an object holding a string and an array.
MapValues ==
  { Num(-7), Num(0), Bool(FALSE), Null,
    StrV(<<>>), StrV(<<"4", "2">>), StrV(<<"1", ".">>), StrV(<<"a", "&", "b", "=", "c", "?", "%">>),
    StrV(<<"{", "\"", "y", "\"", ":", "1", "}">>),
    Obj(<< Entry(<<"q">>, StrV(<<"x", "\"", "\\", " ", "y">>)),
           Entry(<<"l">>, Arr(<< Elem(Num(1)), Elem(Null), Elem(Bool(TRUE)) >>)) >>) }

\* The mappings of at most MaxPairs entries: what Object.entries gives,
\* the properties in their order.
RECURSIVE MappingsOf(_)
MappingsOf(n) ==
  IF n = 0 THEN { <<>> }
  ELSE LET shorter == MappingsOf(n - 1)
       IN shorter \cup
          { DefineOwn(x[1], x[2], v) :
              x \in {y \in shorter \X MapKeys : Len(y[1]) = n - 1 /\ y[2] \notin Keys(y[1])},
              v \in MapValues }

Mappings == MappingsOf(MaxPairs)

\* What precedes the question mark of a URL.
Bases == { <<>>, <<"h", "t", "t", "p", ":", "/", "/", "h", "/", "p">> }

Q_abc == <<"a", "=", "1", "&", "b", "=", "h", "e", "l", "l", "o", "&", "c", "=">>

\* Sources given to queryParam directly.
Sources ==
  { <<"?">> \o Q_abc, Q_abc, <<"h", "t", "t", "p", ":", "/", "/", "h", "/", "p">> \o <<"?">> \o Q_abc,
    <<"?", "f", "l", "a", "g", "&", "a", "=", "1">>, <<"?", "x", "=", "%", "7", "B", "%", "2", "2", "y", "%", "2", "2", "%", "3", "A", "1", "%", "7", "D">>, <<"?", "a", "=", "1", "&", "&", "b", "=", "2">>, <<"?", "a", "=", "%">>, <<"?", "a", "=", "%", "z", "z", "&", "b", "=", "1">>,
    <<"?", "a", "=", "1", "&", "a", "=", "2">>, <<"?", "a", "=", "b", "=", "c">>, <<"?", "a", "=", "1", "?", "b", "=", "2">>, <<>>, <<"?">>, <<"?", "f", "l", "a", "g">>,
    <<"?">> \o K_proto \o <<"=", "1">>,
    <<"?", "b", "=", "1", "&", "2", "=", "x", "&", "1", "0", "=", "y", "&", "9", "=", "z">>,
    <<"?", "a", "=", "1", "&">> \o K_proto \o <<"=", "%", "7", "B", "%", "2", "2", "x", "%", "2", "2", "%", "3", "A", "1", "%", "7", "D">> \o <<"&", "b", "=", "2">>,
    <<"?">> \o K_proto \o <<"=", "n", "u", "l", "l", "&">> \o K_proto \o <<"=", "5">>,
    <<"?">> \o K_proto \o <<"=", "%", "5", "B", "7", "%", "5", "D">>,
    <<"?", "k", "=", "1", ".", "&", "a", "=", "1", "e">>,
    <<"?", "a", "=", "1", ".", "5", "x", "&", "c", "=", "-", "0", ".">>,
    <<"?", "a", "=", "%", "F", "F", "&", "c", "=", "1">>,
    <<"?", "a", "=", "%", "C", "3", "%", "A", "9", "&", "c", "=", "1", ".", "5">> }

\* Values of p.
Params == { <<>>, K_a, K_c, K_flag, <<"x">>, <<"0">>, K_proto, K_constructor, <<"t", "o", "S", "t", "r", "i", "n", "g">> }

-----------------------------------------------------------------------------
(* The query codec as a state machine: a mapping is serialized and parsed   *)
(* back, or a source is parsed directly.                                    *)

QIdle ==
  /\ qm = <<>>
  /\ qstr = <<>>
  /\ qsrc = <<>>
  /\ qp = <<>>
  /\ qres = Undefined
  /\ qpc = "start"

QInit ==
  /\ qm \in Mappings
  /\ qstr = <<>>
  /\ qsrc = <<>>
  /\ qp = <<>>
  /\ qres = Undefined
  /\ qpc = "start"

\* qstr = params2query(qm)
Params2query ==
  /\ qpc = "start"
  /\ qstr' = params2query(qm)
  /\ qpc' = "serialized"
  /\ UNCHANGED <<qm, qsrc, qp, qres>>
  /\ UNCHANGED NotQuery

\* qres = queryParam(undefined, qstr)
QueryParamOfQuery ==
  /\ qpc = "serialized"
  /\ qsrc' = qstr
  /\ qp' = <<>>
  /\ qres' = queryParam(<<>>, qstr)
  /\ qpc' = "parsedQuery"
  /\ UNCHANGED <<qm, qstr>>
  /\ UNCHANGED NotQuery

\* qres = queryParam(undefined, base + '?' + qstr)
QueryParamOfUrl ==
  /\ qpc = "serialized"
  /\ \E base \in Bases :
       /\ qsrc' = base \o <<"?">> \o qstr
       /\ qres' = queryParam(<<>>, base \o <<"?">> \o qstr)
  /\ qp' = <<>>
  /\ qpc' = "parsedUrl"
  /\ UNCHANGED <<qm, qstr>>
  /\ UNCHANGED NotQuery

\* qres = queryParam(p, source)
QueryParamOfSource ==
  /\ qpc = "start"
  /\ qm = <<>>
  /\ \E p \in Params, source \in Sources :
       /\ qp' = p
       /\ qsrc' = source
       /\ qres' = queryParam(p, source)
  /\ qpc' = "parsedSource"
  /\ UNCHANGED <<qm, qstr>>
  /\ UNCHANGED NotQuery

QNext == Params2query \/ QueryParamOfQuery \/ QueryParamOfUrl \/ QueryParamOfSource


-----------------------------------------------------------------------------
(* Claims about the query codec *)

\* A string that is itself a JSON text.
ValidJSONString(v) == v.t = "string" /\ JSONparse(v.s).k = "ok"

\* A key holding none of the delimiters of a query, and not __proto__.
SafeKey(k) == k # K_proto /\ \A i \in 1..Len(k) : k[i] \notin {"?", "&", "="}

\* out has the keys of m, each with the value m gives it, but for the
\* strings that are JSON texts.
Reproduces(m, out) ==
  /\ out.t = "object"
  /\ Keys(out.kids) = Keys(m)
  /\ \A i \in 1..Len(m) :
       ValidJSONString(m[i].v) \/ Get(out, m[i].k) = m[i].v

\* C2 as stated: queryParam(undefined, params2query(m)) reproduces m, but
\* for the string values that are JSON texts.
C2_RoundTripOfQuery == qpc = "parsedQuery" => Reproduces(qm, qres)

\* C2 amended: for m whose keys hold no '?', '&' or '=' and are not
\* __proto__, and u without '?',
\* queryParam(undefined, u + '?' + params2query(m)) reproduces m, but for
\* the string values that are JSON texts, which come back as JSON.parse
\* of them.
C2_RoundTripOfUrl ==
  (qpc = "parsedUrl" /\ \A k \in Keys(qm) : SafeKey(k)) =>
    /\ Reproduces(qm, qres)
    /\ \A i \in 1..Len(qm) :
         ValidJSONString(qm[i].v) => Get(qres, qm[i].k) = JSONparse(qm[i].v.s).v

\* A mapping of two entries, a string that is a JSON text and a string
\* with delimiters in it, has come back from a URL.
C2_Witness ==
  /\ qpc = "parsedUrl"
  /\ Len(qm) = 2
  /\ \A k \in Keys(qm) : SafeKey(k)
  /\ qm[1].v = StrV(<<"4", "2">>)
  /\ Get(qres, qm[1].k) = Num(42)
  /\ qm[2].v = StrV(<<"a", "&", "b", "=", "c", "?", "%">>)
  /\ Get(qres, qm[2].k) = qm[2].v

\* The sources whose query is a=1&b=hello&c=
AbcSources == { <<"?">> \o Q_abc, <<"h", "t", "t", "p", ":", "/", "/", "h", "/", "p">> \o <<"?">> \o Q_abc }

\* C3 as stated: the query a=1&b=hello&c= gives exactly the keys a and b,
\* a = 1 and b = "hello"; c= gives no key.
C3_EmptyValueGivesNoKey ==
  (qpc = "parsedSource" /\ qp = <<>> /\ qsrc \in AbcSources) =>
    qres = Obj(<< Entry(K_a, Num(1)), Entry(K_b, StrV(S_hello)) >>)

\* C3 amended: the query a=1&b=hello&c= gives exactly the keys a, b and c,
\* a = 1, b = "hello" and c the empty string.
C3_EmptyValueGivesEmptyString ==
  (qpc = "parsedSource" /\ qp = <<>> /\ qsrc \in AbcSources) =>
    /\ qres.t = "object"
    /\ Keys(qres.kids) = {K_a, K_b, K_c}
    /\ Get(qres, K_a) = Num(1)
    /\ Get(qres, K_b) = StrV(S_hello)
    /\ Get(qres, K_c) = StrV(<<>>)

\* The query a=1&b=hello&c= has been parsed, and c is there.
C3_Witness ==
  /\ qpc = "parsedSource"
  /\ qp = <<>>
  /\ qsrc = <<"?">> \o Q_abc
  /\ K_c \in Keys(qres.kids)

\* C9: a non-empty pair without '=' gives an entry whose key is the pair
\* and whose value is undefined, and no error.
C9_PairWithoutEqualsIsUndefined ==
  (qpc = "parsedSource" /\ qp = <<>>) =>
    LET pairs == Split(QueryString(qsrc), "&")
    IN \A i \in 1..Len(pairs) :
         (pairs[i] # <<>> /\ \A j \in 1..Len(pairs[i]) : pairs[i][j] # "=") =>
           /\ qres.t = "object"
           /\ pairs[i] \in Keys(qres.kids)
           /\ Get(qres, pairs[i]) = Undefined

-----------------------------------------------------------------------------
(* asap *)

CallIds == 1..MaxCalls

\* IsReady taking the document for ready only once it is complete.
IsReadyCompleteOnly(rs) == rs = "complete"

\* ['complete', 'interactive'].includes(document.readyState)
IsReady(rs) == rs \in {"complete", "interactive"}

\* A call: where it stands, whether it was given a cb, document.readyState
\* when it was made, the invocations of cb, whether the returned promise
\* is resolved, and whether its DOMContentLoaded listener is registered.
ACall(st, hasCb, at, cb, resolved, listening) ==
  [st |-> st, hasCb |-> hasCb, at |-> at, cb |-> cb, resolved |-> resolved,
   listening |-> listening]

\* cb?.(): one more invocation when there is a cb.
Invoke(call) == IF call.hasCb THEN call.cb + 1 ELSE call.cb

AIdle ==
  /\ readyState = "loading"
  /\ dclFired = FALSE
  /\ acalls = [c \in CallIds |-> ACall("idle", FALSE, "none", 0, FALSE, FALSE)]
  /\ listeners = <<>>

AInit == AIdle

\* asap(cb), cb given or not: at once when the document is ready, and a
\* DOMContentLoaded listener otherwise.
Asap(c) ==
  /\ acalls[c].st = "idle"
  /\ \E hasCb \in BOOLEAN :
       LET call == ACall("idle", hasCb, readyState, 0, FALSE, FALSE)
       IN acalls' = [acalls EXCEPT ![c] =
            IF IsReady(readyState)
            THEN [call EXCEPT !.st = "done", !.cb = Invoke(call), !.resolved = TRUE]
            ELSE [call EXCEPT !.st = "waiting", !.listening = TRUE]]
  /\ listeners' = IF IsReady(readyState) THEN listeners ELSE Append(listeners, c)
  /\ UNCHANGED <<readyState, dclFired>>
  /\ UNCHANGED NotAsap

\* The document has been parsed: readyState becomes interactive.
DocInteractive ==
  /\ readyState = "loading"
  /\ readyState' = "interactive"
  /\ UNCHANGED <<dclFired, acalls, listeners>>
  /\ UNCHANGED NotAsap

\* DOMContentLoaded is dispatched, once: the listeners registered are due,
\* one after the other.
FireDOMContentLoaded ==
  /\ readyState = "interactive"
  /\ ~dclFired
  /\ dclFired' = TRUE
  /\ UNCHANGED <<readyState, acalls, listeners>>
  /\ UNCHANGED NotAsap

\* The listener of one call runs, the first of those due: it invokes its cb
\* and resolves its promise.  Each listener is a callback of its own: what
\* waits for the promise (another call of asap, say) may run before the
\* next listener does.
DOMContentLoadedListener ==
  /\ dclFired
  /\ listeners # <<>>
  /\ acalls' = [acalls EXCEPT ![Head(listeners)] =
       [@ EXCEPT !.st = "done", !.cb = Invoke(acalls[Head(listeners)]), !.resolved = TRUE]]
  /\ listeners' = Tail(listeners)
  /\ UNCHANGED <<readyState, dclFired>>
  /\ UNCHANGED NotAsap

\* The load event, after the dispatch of DOMContentLoaded: readyState
\* becomes complete.
DocComplete ==
  /\ readyState = "interactive"
  /\ dclFired
  /\ listeners = <<>>
  /\ readyState' = "complete"
  /\ UNCHANGED <<dclFired, acalls, listeners>>
  /\ UNCHANGED NotAsap

ANext ==
  \/ \E c \in CallIds : Asap(c)
  \/ DocInteractive
  \/ FireDOMContentLoaded
  \/ DOMContentLoadedListener
  \/ DocComplete

-----------------------------------------------------------------------------
(* Claims about asap *)

\* At every moment: cb has run at most once; a resolved call has run its
\* cb; a call made with the document interactive or complete has run its
\* cb and is resolved without any event; a call that waits has its
\* listener due, and has not run its cb yet.
AsapSafe ==
  \A c \in CallIds :
    /\ acalls[c].cb <= 1
    /\ acalls[c].resolved => acalls[c].cb = (IF acalls[c].hasCb THEN 1 ELSE 0)
    /\ acalls[c].at \in {"interactive", "complete"} => (acalls[c].resolved /\ ~acalls[c].listening)
    /\ acalls[c].st = "waiting" =>
         /\ acalls[c].cb = 0 /\ ~acalls[c].resolved
         /\ \E i \in 1..Len(listeners) : listeners[i] = c

\* C4: each call of asap invokes its cb exactly once and then resolves,
\* whatever the document state at the call; at once when the document is
\* interactive or complete; each call on its own.
C4_AsapExactlyOnce ==
  /\ []AsapSafe
  /\ \A c \in CallIds :
       (acalls[c].st # "idle") ~>
         (acalls[c].resolved /\ acalls[c].cb = (IF acalls[c].hasCb THEN 1 ELSE 0))

\* Calls made while loading, while interactive and when complete have all
\* run their cb once, one of them through DOMContentLoaded.
C4_Witness ==
  /\ \A c \in CallIds : acalls[c].resolved /\ acalls[c].hasCb /\ acalls[c].cb = 1
  /\ {acalls[c].at : c \in CallIds} = {"loading", "interactive", "complete"}

-----------------------------------------------------------------------------
(* hostReactAppReady *)

WaiterIds == 1..MaxWaiters

Selectors == {"#__next > div", "#root"}

\* The rendered height of what the selector finds: none when it finds
\* nothing.
Height(el) == CASE el = "rendered" -> 10 [] el = "flat" -> 0 [] OTHER -> -1

\* HeightTruthy taking any element found for ready.
HeightTruthyIfFound(el) == el # "absent"

\* hostEl?.getBoundingClientRect().height is truthy: an element, of
\* height other than 0.
HeightTruthy(el) == el # "absent" /\ Height(el) # 0

\* A call: where it stands, its selector, the timeouts pending, the polls
\* that found the element rendered, and whether one of them went by
\* without resolving.
HWait(st, sel, timers, seen, missed) ==
  [st |-> st, sel |-> sel, timers |-> timers, seen |-> seen, missed |-> missed]

\* checkReady of a call: resolve, or setTimeout(checkReady, timeout).
CheckReady(w) ==
  LET el == hostEl[w.sel]
      seen == IF el = "rendered" /\ w.seen < 2 THEN w.seen + 1 ELSE w.seen
  IN IF HeightTruthy(el)
     THEN [w EXCEPT !.st = "resolved", !.seen = seen]
     ELSE [w EXCEPT !.st = "polling", !.timers = w.timers + 1, !.seen = seen,
                    !.missed = (el = "rendered")]

HIdle ==
  /\ hostEl = [s \in Selectors |-> "absent"]
  /\ hwait = [w \in WaiterIds |-> HWait("idle", "#__next > div", 0, 0, FALSE)]

HInit == HIdle

\* hostReactAppReady(selector, timeout): the first checkReady runs in the
\* call.
HostReactAppReady(w) ==
  /\ hwait[w].st = "idle"
  /\ \E sel \in Selectors :
       hwait' = [hwait EXCEPT ![w] = CheckReady([hwait[w] EXCEPT !.sel = sel])]
  /\ UNCHANGED hostEl
  /\ UNCHANGED NotHost

\* A timeout of the call fires: checkReady again.
TimerFire(w) ==
  /\ hwait[w].timers > 0
  /\ hwait' = [hwait EXCEPT ![w] = CheckReady([hwait[w] EXCEPT !.timers = hwait[w].timers - 1])]
  /\ UNCHANGED hostEl
  /\ UNCHANGED NotHost

\* The page changes: the host element appears, is laid out, goes away.
DomChange ==
  /\ \E s \in Selectors, el \in {"absent", "flat", "rendered"} :
       /\ hostEl[s] # el
       /\ hostEl' = [hostEl EXCEPT ![s] = el]
  /\ UNCHANGED hwait
  /\ UNCHANGED NotHost

HNext == (\E w \in WaiterIds : HostReactAppReady(w) \/ TimerFire(w)) \/ DomChange

-----------------------------------------------------------------------------
(* Claims about hostReactAppReady *)

\* At every moment: a resolved call resolved at the first poll that found
\* the element rendered, and has no poll scheduled; a call not resolved
\* has found the element rendered at no poll, and has one poll scheduled.
HostSafe ==
  \A w \in WaiterIds :
    /\ ~hwait[w].missed
    /\ hwait[w].st = "resolved" => (hwait[w].seen = 1 /\ hwait[w].timers = 0)
    /\ hwait[w].st = "polling" => (hwait[w].seen = 0 /\ hwait[w].timers = 1)
    /\ hwait[w].st = "idle" => (hwait[w].seen = 0 /\ hwait[w].timers = 0)

\* C5: the promise resolves at the first poll that finds the element with
\* a height other than 0 and not before; until then one poll is always
\* scheduled, and none after; when timers fire and the element is there
\* for good, the promise resolves.
C5_ResolvesAtFirstRenderedPoll ==
  /\ []HostSafe
  /\ \A w \in WaiterIds, s \in Selectors :
       <>[](hostEl[s] = "rendered") => <>[]~(hwait[w].st = "polling" /\ hwait[w].sel = s)

\* A call has polled an absent element, then one of height 0 (its timer
\* fired), and resolved once the element was rendered.
C5_Witness ==
  \E w \in WaiterIds :
    /\ hwait[w].st = "resolved"
    /\ hwait[w].seen = 1
    /\ hostEl[hwait[w].sel] = "rendered"
    /\ \E v \in WaiterIds : hwait[v].st = "polling" /\ hostEl[hwait[v].sel] = "flat"

-----------------------------------------------------------------------------
(* mediaMatcher *)

WatcherIds == 1..MaxWatchers

\* Viewport widths and thresholds, in px.
Widths == {500, 768, 769, 1024}
Sizes == {768, 1000}

\* MaxWidthMatches as a min-width condition.
MinWidthMatches(size, w) == w >= size

\* window.matchMedia(`(max-width: ${size}px)`).matches in a viewport of
\* width w.
MaxWidthMatches(size, w) == w <= size

\* A call: where it stands, its size, the match state the browser last
\* evaluated for its MediaQueryList, the invocations of the callback and
\* the argument of the last one, and the change events dispatched to it.
MWatch(st, size, matches, calls, lastArg, changes) ==
  [st |-> st, size |-> size, matches |-> matches, calls |-> calls,
   lastArg |-> lastArg, changes |-> changes]

MIdle ==
  /\ width = 500
  /\ resizes = 0
  /\ mwatch = [m \in WatcherIds |-> MWatch("idle", 768, FALSE, 0, FALSE, 0)]

MInit ==
  /\ width \in Widths
  /\ resizes = 0
  /\ mwatch = [m \in WatcherIds |-> MWatch("idle", 768, FALSE, 0, FALSE, 0)]

\* mediaMatcher(size, callback): callback(mediaQuery.matches), and the
\* change listener.
MediaMatcher(m) ==
  /\ mwatch[m].st = "idle"
  /\ \E size \in Sizes :
       mwatch' = [mwatch EXCEPT ![m] =
         MWatch("watching", size, MaxWidthMatches(size, width), 1,
                MaxWidthMatches(size, width), 0)]
  /\ UNCHANGED <<width, resizes>>
  /\ UNCHANGED NotMedia

\* The viewport is resized.
Resize ==
  /\ resizes < MaxResizes
  /\ \E w \in Widths : w # width /\ width' = w
  /\ resizes' = resizes + 1
  /\ UNCHANGED mwatch
  /\ UNCHANGED NotMedia

\* The browser evaluates the media query of a call and finds its match
\* state changed: the change event, whose listener is callback(e.matches).
ChangeEvent(m) ==
  /\ mwatch[m].st = "watching"
  /\ MaxWidthMatches(mwatch[m].size, width) # mwatch[m].matches
  /\ LET e == [matches |-> MaxWidthMatches(mwatch[m].size, width)]
     IN mwatch' = [mwatch EXCEPT ![m] =
          [@ EXCEPT !.matches = e.matches, !.calls = @ + 1, !.lastArg = e.matches,
                    !.changes = @ + 1]]
  /\ UNCHANGED <<width, resizes>>
  /\ UNCHANGED NotMedia

MNext == (\E m \in WatcherIds : MediaMatcher(m) \/ ChangeEvent(m)) \/ Resize

-----------------------------------------------------------------------------
(* Claims about mediaMatcher *)

\* C8: the callback is invoked once in the call, with the match state of
\* (max-width: size px), and once more on every change event, with the
\* new match state: once the change events of a resize are dispatched, the
\* argument of the last invocation is whether width <= size.
C8_LastArgumentIsMatchState ==
  \A m \in WatcherIds :
    /\ mwatch[m].st = "idle" => mwatch[m].calls = 0
    /\ mwatch[m].st = "watching" =>
         /\ mwatch[m].calls = 1 + mwatch[m].changes
         /\ mwatch[m].lastArg = mwatch[m].matches
         /\ (\A n \in WatcherIds : ~ENABLED ChangeEvent(n)) =>
              mwatch[m].lastArg = (width <= mwatch[m].size)

\* A call with size 768 made at width 500 got true, and false after a
\* resize above 768.
C8_Witness ==
  \E m \in WatcherIds :
    /\ mwatch[m].st = "watching"
    /\ mwatch[m].size = 768
    /\ mwatch[m].calls = 2
    /\ width > 768
    /\ mwatch[m].lastArg = FALSE

-----------------------------------------------------------------------------
(* arrayOfNodesWith *)

\* An input: its kind, the node or the number it is, the selector it is,
\* and what it holds (the items of an array, the nodes of a NodeList or of
\* a jQuery object).
In(t, id, sel, items) == [t |-> t, id |-> id, sel |-> sel, items |-> items]

NodeIn(id) == In("node", id, "", <<>>)
ArrayIn(items) == In("array", 0, "", items)
NodeListIn(ids) == In("nodelist", 0, "", [i \in 1..Len(ids) |-> NodeIn(ids[i])])
JQueryIn(ids) == In("jquery", 0, "", [i \in 1..Len(ids) |-> NodeIn(ids[i])])
StringIn(sel) == In("string", 0, sel, <<>>)
NumberIn(n) == In("number", n, "", <<>>)
NullIn == In("null", 0, "", <<>>)

\* document.querySelectorAll(sel), the document holding the div elements
\* 1, 2 and 3 in this order, 2 of class a.
QuerySelectorAll(sel) ==
  CASE sel = "div" -> <<1, 2, 3>>
    [] sel = ".a" -> <<2>>
    [] OTHER -> <<>>

\* A result: the nodes, or the error thrown with the value it names.
NOk(nodes) == [k |-> "ok", nodes |-> nodes, val |-> NullIn]
NThrow(v) == [k |-> "unsupported", nodes |-> <<>>, val |-> v]

\* The nodes held by a NodeList, an HTMLCollection or a jQuery object.
NodesHeld(in) == [i \in 1..Len(in.items) |-> in.items[i].id]

RECURSIVE Unique(_)
Unique(ids) ==
  IF ids = <<>> THEN <<>>
  ELSE LET rest == Unique(SubSeq(ids, 1, Len(ids) - 1))
       IN IF \E i \in 1..Len(rest) : rest[i] = ids[Len(ids)] THEN rest
          ELSE Append(rest, ids[Len(ids)])

RECURSIVE FlatMap(_)
RECURSIVE FlatMapUnique(_)

\* FlatMap dropping the nodes already there.
FlatMapUnique(results) ==
  IF results = <<>> THEN NOk(<<>>)
  ELSE IF Head(results).k # "ok" THEN Head(results)
  ELSE LET rest == FlatMap(Tail(results))
       IN IF rest.k # "ok" THEN rest ELSE NOk(Unique(Head(results).nodes \o rest.nodes))

\* what.flatMap(...) over the results of the items: their nodes one after
\* the other, or the first error thrown.
FlatMap(results) ==
  IF results = <<>> THEN NOk(<<>>)
  ELSE IF Head(results).k # "ok" THEN Head(results)
  ELSE LET rest == FlatMap(Tail(results))
       IN IF rest.k # "ok" THEN rest ELSE NOk(Head(results).nodes \o rest.nodes)

RECURSIVE arrayOfNodesWith(_)
arrayOfNodesWith(in) ==
  CASE in.t = "jquery" -> NOk(NodesHeld(in))
    [] in.t = "array" -> FlatMap([i \in 1..Len(in.items) |-> arrayOfNodesWith(in.items[i])])
    [] in.t = "node" -> NOk(<< in.id >>)
    [] in.t = "nodelist" -> NOk(NodesHeld(in))
    [] in.t = "string" -> NOk(QuerySelectorAll(in.sel))
    [] OTHER -> NThrow(in)

\* The leaves an input is built from: nodes, a jQuery object, a selector,
\* and a value of no supported kind.
Leaves == { NodeIn(1), NodeIn(2), JQueryIn(<<3, 1>>), StringIn("div"), NumberIn(42) }

Supported(leaf) == leaf.t \in {"node", "nodelist", "jquery", "string"}

\* The nodes a supported leaf stands for.
LeafNodes(leaf) ==
  CASE leaf.t = "node" -> << leaf.id >>
    [] leaf.t = "string" -> QuerySelectorAll(leaf.sel)
    [] OTHER -> NodesHeld(leaf)

RECURSIVE LeafCount(_)
RECURSIVE LeafCountAll(_)
LeafCountAll(items) == IF items = <<>> THEN 0 ELSE LeafCount(Head(items)) + LeafCountAll(Tail(items))
LeafCount(in) == IF in.t = "array" THEN LeafCountAll(in.items) ELSE 1

NIdle ==
  /\ what = ArrayIn(<<>>)
  /\ flat = <<>>
  /\ bad = FALSE
  /\ wraps = 0
  /\ nres = NOk(<<>>)
  /\ npc = "build"

NInit == NIdle

\* The caller appends a leaf to the array: flat follows the nodes the
\* leaves stand for, from left to right.
AppendLeaf ==
  /\ npc = "build"
  /\ what.t = "array"
  /\ LeafCount(what) < MaxLeaves
  /\ \E leaf \in Leaves :
       /\ what' = ArrayIn(Append(what.items, leaf))
       /\ flat' = IF Supported(leaf) THEN flat \o LeafNodes(leaf) ELSE flat
       /\ bad' = (bad \/ ~Supported(leaf))
  /\ UNCHANGED <<wraps, nres, npc>>
  /\ UNCHANGED NotNodes

\* The caller nests the items i..j of the array (none when j = i - 1) into
\* an array of their own.
Wrap ==
  /\ npc = "build"
  /\ what.t = "array"
  /\ wraps < MaxWraps
  /\ \E i \in 1..(Len(what.items) + 1), j \in 0..Len(what.items) :
       /\ j >= i - 1
       /\ what' = ArrayIn(Sub(what.items, 1, i - 1)
                            \o << ArrayIn(Sub(what.items, i, j)) >>
                            \o Sub(what.items, j + 1, Len(what.items)))
  /\ wraps' = wraps + 1
  /\ UNCHANGED <<flat, bad, nres, npc>>
  /\ UNCHANGED NotNodes

\* The caller passes the only item of the array instead of the array.
TakeOnly ==
  /\ npc = "build"
  /\ what.t = "array"
  /\ Len(what.items) = 1
  /\ what' = what.items[1]
  /\ UNCHANGED <<flat, bad, wraps, nres, npc>>
  /\ UNCHANGED NotNodes

\* nres = arrayOfNodesWith(what)
Normalize ==
  /\ npc = "build"
  /\ nres' = arrayOfNodesWith(what)
  /\ npc' = "done"
  /\ UNCHANGED <<what, flat, bad, wraps>>
  /\ UNCHANGED NotNodes

NNext == AppendLeaf \/ Wrap \/ TakeOnly \/ Normalize

-----------------------------------------------------------------------------
(* Claims about arrayOfNodesWith *)

\* C7: a nested array of nodes gives its leaves from left to right,
\* duplicates kept; a value of no supported kind, alone or as a leaf,
\* makes the call throw the unsupported-input error, naming that value.
C7_FlattensOrThrows ==
  npc = "done" =>
    IF bad
    THEN nres.k = "unsupported" /\ nres.nodes = <<>> /\ ~Supported(nres.val)
    ELSE nres = NOk(flat)

\* [nodeA, [nodeB, nodeA]] has given [nodeA, nodeB, nodeA].
C7_Witness ==
  /\ npc = "done"
  /\ what = ArrayIn(<< NodeIn(1), ArrayIn(<< NodeIn(2), NodeIn(1) >>) >>)
  /\ nres = NOk(<<1, 2, 1>>)

\* The number 42 nested in an array has made the call throw.
C7_WitnessThrow ==
  /\ npc = "done"
  /\ what = ArrayIn(<< NodeIn(1), ArrayIn(<< NumberIn(42) >>) >>)
  /\ nres.k = "unsupported"

-----------------------------------------------------------------------------
(* preloadScript *)

\* The script elements: those of the calls of vimeoAutoPlay come first.
ScriptIds == 1..(MaxVimeoCalls + MaxScripts)

\* A script element: "none" (not created), "loading", "loaded" (its load
\* event has fired) or "failed" (its error event has); whether the call
\* was given a cb; and what has been done with it, in order: "append" to
\* the head, "remove" from the document, "cb" invoked, "resolve" of the
\* promise.
Script(st, hasCb, log) == [st |-> st, hasCb |-> hasCb, log |-> log]

Has(log, step) == \E i \in 1..Len(log) : log[i] = step
InHead(sc) == Has(sc.log, "append") /\ ~Has(sc.log, "remove")
Resolved(sc) == Has(sc.log, "resolve")

\* LoadSteps resolving before it invokes cb.
LoadStepsResolveFirst(hasCb) ==
  <<"remove", "resolve">> \o (IF hasCb THEN <<"cb">> ELSE <<>>)

\* The load listener: scriptEl.remove(); cb?.(); resolve().
LoadSteps(hasCb) ==
  <<"remove">> \o (IF hasCb THEN <<"cb">> ELSE <<>>) \o <<"resolve">>

\* The script element a call of preloadScript creates: the first one not
\* created yet.
FreeScript(id) ==
  /\ id > MaxVimeoCalls
  /\ scripts[id].st = "none"
  /\ \A j \in ScriptIds : (MaxVimeoCalls < j /\ j < id) => scripts[j].st # "none"

\* The body of preloadScript(url, cb): the element, its load listener,
\* document.head.append.
Preload(id, hasCb) == [scripts EXCEPT ![id] = Script("loading", hasCb, <<"append">>)]

SIdle == scripts = [id \in ScriptIds |-> Script("none", FALSE, <<>>)]

\* preloadScript(url, cb), cb given or not.
PreloadScript(id) ==
  /\ FreeScript(id)
  /\ \E hasCb \in BOOLEAN : scripts' = Preload(id, hasCb)
  /\ UNCHANGED <<boxes, visible, nchanges, vact, player, nextPlayer, delivered, vcalls>>
  /\ UNCHANGED NotVimeo

\* The load event of a script element.
ScriptLoad(id) ==
  /\ scripts[id].st = "loading"
  /\ scripts' = [scripts EXCEPT ![id] =
       [@ EXCEPT !.st = "loaded", !.log = @ \o LoadSteps(scripts[id].hasCb)]]
  /\ UNCHANGED <<boxes, visible, nchanges, vact, player, nextPlayer, delivered, vcalls>>
  /\ UNCHANGED NotVimeo

\* The error event of a script element: nothing listens to it.
ScriptError(id) ==
  /\ scripts[id].st = "loading"
  /\ scripts' = [scripts EXCEPT ![id].st = "failed"]
  /\ UNCHANGED <<boxes, visible, nchanges, vact, player, nextPlayer, delivered, vcalls>>
  /\ UNCHANGED NotVimeo

-----------------------------------------------------------------------------
(* vimeoAutoPlay *)

ActivationIds == 1..MaxVimeoCalls

\* The video boxes: each clone of the vimeoVideoBox template holds two, the
\* desktop one (2n - 1 for the n-th clone) and the mobile one (2n).
BoxIds == 1..(2 * MaxVimeoCalls)

\* The boxes of the n-th clone, in the order of the template.
CloneBoxes(n) == << 2 * n - 1, 2 * n >>

\* b is one of the elements of seq.
InSeq(b, seq) == \E i \in 1..Len(seq) : seq[i] = b

\* A call of vimeoAutoPlay: "idle" (not made), "returned" (no box found),
\* "loading" (awaiting preloadScript) or "observing"; its script element,
\* the boxes it found, and the entries its observer has yet to report.
VAct(st, script, vboxes, queue) ==
  [st |-> st, script |-> script, vboxes |-> vboxes, queue |-> queue]

IOEntry(target, isIntersecting) == [target |-> target, isIntersecting |-> isIntersecting]

PlayerCall(op, pid) == [op |-> op, pid |-> pid]

VIdle ==
  /\ boxes = <<>>
  /\ visible = [b \in BoxIds |-> FALSE]
  /\ nchanges = 0
  /\ vact = [a \in ActivationIds |-> VAct("idle", 0, <<>>, <<>>)]
  /\ player = [b \in BoxIds |-> 0]
  /\ nextPlayer = 1
  /\ delivered = [b \in BoxIds |-> <<>>]
  /\ vcalls = [b \in BoxIds |-> <<>>]

VInit == SIdle /\ VIdle

\* The calls of insertVimeoBox and of vimeoAutoPlay made so far.
VimeoCalls == (Len(boxes) \div 2) + Cardinality({a \in ActivationIds : vact[a].st # "idle"})

\* The script element of a call of vimeoAutoPlay.
ScriptOf(a) == a

\* insertVimeoBox(ids, container): a clone of the template is made, its
\* two boxes are given their video ids, and container.prepend puts it before
\* what the container holds; every call adds two boxes more.
InsertVimeoBox ==
  /\ VimeoCalls < MaxVimeoCalls
  /\ boxes' = CloneBoxes((Len(boxes) \div 2) + 1) \o boxes
  /\ UNCHANGED <<scripts, visible, nchanges, vact, player, nextPlayer, delivered, vcalls>>
  /\ UNCHANGED NotVimeo

\* vimeoAutoPlay(observerOptions) up to its await: nothing when no box is
\* found, and preloadScript of the player script otherwise.  The calls are
\* numbered in their order.
VimeoAutoPlay(a) ==
  /\ vact[a].st = "idle"
  /\ VimeoCalls < MaxVimeoCalls
  /\ \A j \in ActivationIds : j < a => vact[j].st # "idle"
  /\ IF boxes = <<>>
     THEN /\ vact' = [vact EXCEPT ![a].st = "returned"]
          /\ UNCHANGED scripts
     ELSE /\ scripts' = Preload(ScriptOf(a), FALSE)
          /\ vact' = [vact EXCEPT ![a] = VAct("loading", ScriptOf(a), boxes, <<>>)]
  /\ UNCHANGED <<boxes, visible, nchanges, player, nextPlayer, delivered, vcalls>>
  /\ UNCHANGED NotVimeo

\* The entries an observer queues when it starts to observe the boxes
\* found: one per box, in the order of vboxes.forEach, with whether the box
\* is in view.
FirstEntries(found) == [i \in 1..Len(found) |-> IOEntry(found[i], visible[found[i]])]

\* vimeoAutoPlay after its await: the observer is made and observes every
\* box found.
VimeoObserve(a) ==
  /\ vact[a].st = "loading"
  /\ Resolved(scripts[vact[a].script])
  /\ vact' = [vact EXCEPT ![a] =
       [@ EXCEPT !.st = "observing", !.queue = FirstEntries(vact[a].vboxes)]]
  /\ UNCHANGED <<scripts, boxes, visible, nchanges, player, nextPlayer, delivered, vcalls>>
  /\ UNCHANGED NotVimeo

\* A box comes into view or leaves it: every observer of it queues an
\* entry.
VisibilityChange(b) ==
  /\ InSeq(b, boxes)
  /\ nchanges < MaxChanges
  /\ nchanges' = nchanges + 1
  /\ visible' = [visible EXCEPT ![b] = ~visible[b]]
  /\ vact' = [a \in ActivationIds |->
       IF vact[a].st = "observing" /\ InSeq(b, vact[a].vboxes)
       THEN [vact[a] EXCEPT !.queue = Append(@, IOEntry(b, ~visible[b]))]
       ELSE vact[a]]
  /\ UNCHANGED <<scripts, boxes, player, nextPlayer, delivered, vcalls>>
  /\ UNCHANGED NotVimeo

\* NeedsPlayer constructing a player at every entry into view.
NeedsPlayerAlways(p) == TRUE

\* !target['vimeo-player']: the property holds no player yet (0).
NeedsPlayer(p) == p = 0

\* HasPlayer without the optional chaining: pause() whatever the property
\* holds.
HasPlayerUnchecked(p) == TRUE

\* target['vimeo-player']?. : the property holds a player.
HasPlayer(p) == p # 0

\* What the callback works on.
PlayerState(pl, nxt, del, calls) == [player |-> pl, next |-> nxt, delivered |-> del, calls |-> calls]

\* The callback on one entry.
OnEntry(entry, st) ==
  LET t == entry.target
      seen == [st EXCEPT !.delivered[t] = Append(@, entry.isIntersecting)]
  IN IF entry.isIntersecting
     THEN LET made == NeedsPlayer(st.player[t])
              pid == IF made THEN st.next ELSE st.player[t]
          IN [seen EXCEPT !.player[t] = pid,
                          !.next = IF made THEN @ + 1 ELSE @,
                          !.calls[t] = @ \o (IF made THEN << PlayerCall("new", pid) >> ELSE <<>>)
                                         \o << PlayerCall("play", pid) >>]
     ELSE IF HasPlayer(st.player[t])
          THEN [seen EXCEPT !.calls[t] = Append(@, PlayerCall("pause", st.player[t]))]
          ELSE seen

RECURSIVE Callback(_, _)
\* entries.forEach of the observer's callback.
Callback(entries, st) ==
  IF entries = <<>> THEN st ELSE Callback(Tail(entries), OnEntry(Head(entries), st))

\* The observer of a call reports the entries it has queued.
Deliver(a) ==
  /\ vact[a].st = "observing"
  /\ vact[a].queue # <<>>
  /\ LET st == Callback(vact[a].queue, PlayerState(player, nextPlayer, delivered, vcalls))
     IN /\ player' = st.player
        /\ nextPlayer' = st.next
        /\ delivered' = st.delivered
        /\ vcalls' = st.calls
  /\ vact' = [vact EXCEPT ![a].queue = <<>>]
  /\ UNCHANGED <<scripts, boxes, visible, nchanges>>
  /\ UNCHANGED NotVimeo

\* preloadScript called on its own.
SNext == \E id \in ScriptIds : PreloadScript(id) \/ ScriptLoad(id) \/ ScriptError(id)

VNext ==
  \/ \E a \in ActivationIds : ScriptLoad(ScriptOf(a)) \/ ScriptError(ScriptOf(a))
  \/ InsertVimeoBox
  \/ \E a \in ActivationIds : VimeoAutoPlay(a) \/ VimeoObserve(a) \/ Deliver(a)
  \/ \E b \in BoxIds : VisibilityChange(b)

-----------------------------------------------------------------------------
(* Claims about preloadScript and vimeoAutoPlay *)

RECURSIVE CountOp(_, _)
CountOp(calls, op) ==
  IF calls = <<>> THEN 0
  ELSE (IF Head(calls).op = op THEN 1 ELSE 0) + CountOp(Tail(calls), op)

\* C1: whatever the entries and however many observers report on a box, a
\* player is constructed for the box at most once, and every call is made
\* on that player, the one the box holds.
C1_PlayerConstructedOnce ==
  \A b \in BoxIds :
    /\ CountOp(vcalls[b], "new") <= 1
    /\ \A i \in 1..Len(vcalls[b]) : vcalls[b][i].pid = player[b] /\ player[b] # 0
    /\ vcalls[b] # <<>> => vcalls[b][1].op = "new"

\* Two observers have both reported a box in view, which has then left the
\* view: one player, played twice at least.
C1_Witness ==
  \E b \in BoxIds :
    /\ \A a \in 1..2 : vact[a].st = "observing" /\ InSeq(b, vact[a].vboxes)
    /\ CountOp(vcalls[b], "new") = 1
    /\ CountOp(vcalls[b], "play") >= 2
    /\ CountOp(vcalls[b], "pause") >= 1

RECURSIVE ExpectedCalls(_, _)
\* What the entries reported for a box ask for: play for an entry into
\* view, pause for an exit once there has been an entry.
ExpectedCalls(entries, entered) ==
  IF entries = <<>> THEN <<>>
  ELSE IF Head(entries) THEN <<"play">> \o ExpectedCalls(Tail(entries), TRUE)
  ELSE (IF entered THEN <<"pause">> ELSE <<>>) \o ExpectedCalls(Tail(entries), entered)

RECURSIVE PlaysAndPauses(_)
PlaysAndPauses(calls) ==
  IF calls = <<>> THEN <<>>
  ELSE (IF Head(calls).op = "new" THEN <<>> ELSE << Head(calls).op >>) \o PlaysAndPauses(Tail(calls))

\* C10: each entry into view gives one play(), each exit gives one pause()
\* when the box has a player and nothing otherwise: no pause() before the
\* first entry into view.
C10_PlayOnEntryPauseOnExit ==
  \A b \in BoxIds : PlaysAndPauses(vcalls[b]) = ExpectedCalls(delivered[b], FALSE)

\* A box was reported out of view first (nothing to pause), then in view,
\* then out of view.
C10_Witness ==
  \E b \in BoxIds :
    /\ Len(delivered[b]) >= 3
    /\ SubSeq(delivered[b], 1, 3) = <<FALSE, TRUE, FALSE>>
    /\ SubSeq(vcalls[b], 1, 3) = << PlayerCall("new", player[b]), PlayerCall("play", player[b]),
                                    PlayerCall("pause", player[b]) >>

\* C6: the promise of preloadScript resolves only after the load event,
\* after the element was removed and cb invoked, in this order; when the
\* load event does not fire, the promise stays pending, cb is not invoked
\* and the element stays in the head.
C6_ResolvesAfterLoadOnly ==
  \A id \in ScriptIds :
    /\ scripts[id].st = "loaded" =>
         scripts[id].log = <<"append", "remove">> \o (IF scripts[id].hasCb THEN <<"cb">> ELSE <<>>)
                             \o <<"resolve">>
    /\ scripts[id].st \in {"loading", "failed"} => scripts[id].log = <<"append">>
    /\ scripts[id].st = "none" => scripts[id].log = <<>>
    /\ scripts[id].st # "loaded" => ~Resolved(scripts[id])

\* One script given a cb has loaded, and one has failed and is in the head
\* still.
C6_Witness ==
  \E i, j \in ScriptIds :
    /\ scripts[i].st = "loaded" /\ scripts[i].hasCb /\ Resolved(scripts[i]) /\ ~InHead(scripts[i])
    /\ scripts[j].st = "failed" /\ scripts[j].hasCb /\ InHead(scripts[j])

-----------------------------------------------------------------------------
(* Specifications *)

vars ==
  << qm, qstr, qsrc, qp, qres, qpc, readyState, dclFired, acalls, listeners, hostEl, hwait,
     width, resizes, mwatch, what, flat, bad, wraps, nres, npc, scripts,
     boxes, visible, nchanges, vact, player, nextPlayer, delivered, vcalls >>

\* The query codec.
InitQuery == QInit /\ AIdle /\ HIdle /\ MIdle /\ NIdle /\ SIdle /\ VIdle

SpecQuery == InitQuery /\ [][QNext]_vars

\* asap; the document gets parsed, DOMContentLoaded is dispatched and its
\* listeners run.
InitAsap == QIdle /\ AInit /\ HIdle /\ MIdle /\ NIdle /\ SIdle /\ VIdle

SpecAsap ==
  /\ InitAsap
  /\ [][ANext]_vars
  /\ WF_vars(DocInteractive)
  /\ WF_vars(FireDOMContentLoaded)
  /\ WF_vars(DOMContentLoadedListener)

\* hostReactAppReady; a timeout set fires.
InitHost == QIdle /\ AIdle /\ HInit /\ MIdle /\ NIdle /\ SIdle /\ VIdle

SpecHost ==
  /\ InitHost
  /\ [][HNext]_vars
  /\ \A w \in WaiterIds : WF_vars(TimerFire(w))

\* mediaMatcher.
InitMedia == QIdle /\ AIdle /\ HIdle /\ MInit /\ NIdle /\ SIdle /\ VIdle

SpecMedia == InitMedia /\ [][MNext]_vars

\* arrayOfNodesWith.
InitNodes == QIdle /\ AIdle /\ HIdle /\ MIdle /\ NInit /\ SIdle /\ VIdle

SpecNodes == InitNodes /\ [][NNext]_vars

\* preloadScript.
InitScript == QIdle /\ AIdle /\ HIdle /\ MIdle /\ NIdle /\ SIdle /\ VIdle

SpecScript == InitScript /\ [][SNext]_vars

\* vimeoAutoPlay, with the preloadScript it awaits.
InitVimeo == QIdle /\ AIdle /\ HIdle /\ MIdle /\ NIdle /\ VInit

SpecVimeo == InitVimeo /\ [][VNext]_vars

=============================================================================
